---- MODULE Spec2Model ----
(***************************************************************************)
(* micrec: a microphone level meter.  src/main.rs runs two threads: the    *)
(* control thread (App::run: drain samples, draw, poll input) and the      *)
(* capture thread (record_audio: start the stream, poll the shutdown       *)
(* channel).  The audio backend calls the capture callback, which pushes   *)
(* sample buffers on an mpsc channel.                                      *)
(*                                                                         *)
(* f32 values are modelled in fixed point: the integer v stands for        *)
(* v / One, and NaN is a distinguished value.  Square roots and divisions  *)
(* round down.                                                             *)
(***************************************************************************)
EXTENDS Integers, Sequences, FiniteSets, TLC

(* ------------------------------ bounds --------------------------------- *)
\* most buffers in flight on the audio channel (the channel is unbounded)
MaxQueue == 2
\* samples a buffer holds beyond a bar count
MaxExtra == 2
\* largest width of the terminal
MaxWidth == 26
\* longest buffer and largest bar count of the aggregation check
MaxAggLen == 23
\* most buffers the capture callback pushes in a run
MaxPushes == 3

(* ------------------------- program constants --------------------------- *)
\* vec![0.0; 50]
DefaultBars == 50
\* .max(10)
MinBars == 10
\* terminal_width.saturating_sub(4)
BorderCells == 4
\* usable_width / 2
BarSpacing == 2
\* rms * 10.0
Gain == 10
\* .min(1.0): the fixed-point representation of 1.0
One == 100

(* ------------------------------- f32 ----------------------------------- *)
\* f32::NAN, outside the range of every finite value the model computes with
NaN == 0 - (One * One * One)

FAdd(a, b) == IF a = NaN \/ b = NaN THEN NaN ELSE a + b

\* x * x of a sample: the result is in units of 1 / One^2
FSquare(x) == IF x = NaN THEN NaN ELSE x * x

\* sum / chunk.len() as f32
FDivLen(sum, n) == IF sum = NaN \/ n = 0 THEN NaN ELSE sum \div n

RECURSIVE SqrtSearch(_, _, _)
SqrtSearch(n, lo, hi) ==
    IF lo >= hi THEN lo
    ELSE LET mid == (lo + hi + 1) \div 2
         IN  IF mid * mid <= n THEN SqrtSearch(n, mid, hi)
                               ELSE SqrtSearch(n, lo, mid - 1)

\* f32::sqrt of a value in units of 1 / One^2: the result is in units of 1 / One
FSqrt(x) == IF x = NaN \/ x < 0 THEN NaN ELSE SqrtSearch(x, 0, x)

\* rms * 10.0
FMulGain(x) == IF x = NaN THEN NaN ELSE x * Gain

\* f32::min: a NaN operand is ignored
FMin(a, b) == IF a = NaN THEN b ELSE IF b = NaN THEN a ELSE IF a < b THEN a ELSE b

(* --------------------------- aggregation ------------------------------- *)
\* chunk.iter().map(|&x| x * x).sum::<f32>()
RECURSIVE SumSquares(_)
SumSquares(chunk) ==
    IF chunk = << >> THEN 0
    ELSE FAdd(FSquare(Head(chunk)), SumSquares(Tail(chunk)))

\* (sum of squares / chunk.len()).sqrt()
Rms(chunk) == FSqrt(FDivLen(SumSquares(chunk), Len(chunk)))

\* the start of the slice of bar i (0-based)
ChunkStart(i, chunk_size) == i * chunk_size

\* the end of the slice of bar i with the remainder of the division dropped
ChunkEnd_NoRemainder(i, chunk_size, num_bars, n) == (i + 1) * chunk_size

\* the end (exclusive) of the slice of bar i (0-based): the last bar takes the remainder
ChunkEnd(i, chunk_size, num_bars, n) ==
    IF i = num_bars - 1 THEN n ELSE (i + 1) * chunk_size

\* &samples[start..end]
Slice(samples, start, end) == SubSeq(samples, start + 1, end)

\* *bar_value = (rms * 10.0).min(1.0)
BarValue(chunk) == FMin(FMulGain(Rms(chunk)), One)

\* the same, with the clamp left out
ProcessAudioSamples_NoClamp(bars, samples) ==
    LET chunk_size == Len(samples) \div Len(bars)
        num_bars   == Len(bars)
    IN  IF chunk_size = 0 THEN bars
        ELSE [i \in 1..num_bars |->
                FMulGain(Rms(Slice(samples, ChunkStart(i - 1, chunk_size),
                                   ChunkEnd(i - 1, chunk_size, num_bars, Len(samples)))))]

\* the same, with the early return left out: a short buffer reaches the loop
ProcessAudioSamples_NoSkip(bars, samples) ==
    LET chunk_size == Len(samples) \div Len(bars)
        num_bars   == Len(bars)
    IN  [i \in 1..num_bars |->
            BarValue(Slice(samples, ChunkStart(i - 1, chunk_size),
                           ChunkEnd(i - 1, chunk_size, num_bars, Len(samples))))]

\* App::process_audio_samples: the bar values after one buffer
ProcessAudioSamples(bars, samples) ==
    LET chunk_size == Len(samples) \div Len(bars)
        num_bars   == Len(bars)
    IN  IF chunk_size = 0 THEN bars
        ELSE [i \in 1..num_bars |->
                BarValue(Slice(samples, ChunkStart(i - 1, chunk_size),
                               ChunkEnd(i - 1, chunk_size, num_bars, Len(samples))))]

(* ------------------------------ resize --------------------------------- *)
\* u16::saturating_sub
SaturatingSub(a, b) == IF a >= b THEN a - b ELSE 0

Max(a, b) == IF a >= b THEN a ELSE b

\* (usable_width / 2).max(1): a floor of one bar
OptimalBarCount_LowFloor(terminal_width) ==
    Max(SaturatingSub(terminal_width, BorderCells) \div BarSpacing, 1)

\* the bar count update_bar_count derives from the terminal width
OptimalBarCount(terminal_width) ==
    Max(SaturatingSub(terminal_width, BorderCells) \div BarSpacing, MinBars)

\* Vec::resize that clears the values it keeps
VecResize_Reset(bars, new_len) == [i \in 1..new_len |-> 0]

\* Vec::resize(new_len, 0.0): keep the prefix, fill with 0.0
VecResize(bars, new_len) ==
    [i \in 1..new_len |-> IF i <= Len(bars) THEN bars[i] ELSE 0]

\* App::update_bar_count: the bar values after a change of width
UpdateBarCount(bars, terminal_width) ==
    VecResize(bars, OptimalBarCount(terminal_width))

(* ------------------------------ inputs --------------------------------- *)
\* sample i (1-based) of the buffers the audio backend delivers
SampleAt(pattern, i) ==
    CASE pattern = "zero" -> 0
      [] pattern = "full" -> IF i % 2 = 1 THEN One ELSE 0 - One
      [] pattern = "soft" -> 5 * (i % 3)
      [] pattern = "loud" -> 2 * One
      [] pattern = "nan"  -> IF i = 1 THEN NaN ELSE 3

Buffer(n, pattern) == [i \in 1..n |-> SampleAt(pattern, i)]

\* the slices the backend hands to the capture callback in a run of the program
CallbackLens == {0, 3, MinBars + MaxExtra, DefaultBars + MaxExtra}
CallbackData == {Buffer(n, p) : n \in CallbackLens, p \in {"full", "soft"}}

\* the widths frame.area() reports
Widths == {0, 3, MaxWidth}

\* the events event::read() returns
KeyEvents == [type : {"Key"}, code : {" ", "q", "x"}, press : BOOLEAN]
ResizeEvent == [type |-> "Resize", code |-> "", press |-> FALSE]
FocusEvent == [type |-> "Focus", code |-> "", press |-> FALSE]
NoEvent == [type |-> "None", code |-> "", press |-> FALSE]
Events == KeyEvents \cup {ResizeEvent, FocusEvent}

\* the ways record_audio's startup ends
StartupOutcomes == {"no_device", "no_config", "build_failed", "play_failed", "playing"}

(* ------------------------------- state --------------------------------- *)
VARIABLES
    ctl,                  \* position of the control thread in main / App::run
    exit,                 \* App.exit
    recording,            \* App.recording
    shutdown_tx,          \* App.shutdown_tx: "None" or "Some"
    last_terminal_width,  \* App.last_terminal_width
    bar_values,           \* App.bar_values
    audio_q,              \* buffers in flight on the audio channel
    audio_ids,            \* history: the push number of each buffer in flight
    pushed,               \* history: sends of a buffer on the audio channel so far
    aggregated,           \* history: the push numbers of the buffers aggregated, in order
    shutdown_q,           \* messages in flight on the shutdown channel
    cap,                  \* position of the capture thread in record_audio
    pending,              \* the event crossterm has ready for event::read()
    signals_sent,         \* history: calls of shutdown_tx.send(())
    signals_ok,           \* history: the calls among them that returned Ok
    loop_entered,         \* history: the body of the while loop has started
    last_op,              \* history: the last step of the control thread
    last_cb               \* history: <<slice>> when the last step was the data callback

vars == <<ctl, exit, recording, shutdown_tx, last_terminal_width, bar_values,
          audio_q, audio_ids, pushed, aggregated, shutdown_q, cap, pending, signals_sent, signals_ok, loop_entered,
          last_op, last_cb>>

\* the audio channel and the history of the buffers on it
audio == <<audio_q, audio_ids, pushed, aggregated>>

\* the shutdown channel and the history of the sends on it
signals == <<shutdown_q, signals_sent, signals_ok>>

app == <<exit, recording, shutdown_tx, last_terminal_width, bar_values>>

Op(name, n, b) == [op |-> name, n |-> n, b |-> b, ev |-> NoEvent]

\* the receiver of the shutdown channel lives in record_audio's frame
ShutdownRxAlive == cap \in {"startup", "polling"}

\* the receiver of the audio channel is a local of App::run
AudioRxAlive == ctl \in {"loop", "drain", "draw", "poll", "read", "shutdown", "join"}

\* the capture thread has finished: join() returns
CaptureFinished == cap \in {"returned", "panicked"}

\* App::default, before run is called
Init ==
    /\ ctl = "start"
    /\ exit = FALSE
    /\ recording = TRUE
    /\ shutdown_tx = "None"
    /\ last_terminal_width = 0
    /\ bar_values = [i \in 1..DefaultBars |-> 0]
    /\ audio_q = << >>
    /\ audio_ids = << >>
    /\ pushed = 0
    /\ aggregated = << >>
    /\ shutdown_q = 0
    /\ cap = "unspawned"
    /\ pending = NoEvent
    /\ signals_sent = 0
    /\ signals_ok = 0
    /\ loop_entered = FALSE
    /\ last_op = Op("none", 0, 0)
    /\ last_cb = << >>

(* -------------------------- control thread ----------------------------- *)
\* if let Some(tx) = &self.shutdown_tx { tx.send(()).ok(); }
\* the send is counted; the message is queued only while the receiver lives
SendShutdown ==
    IF shutdown_tx = "Some"
    THEN /\ signals_sent' = signals_sent + 1
         /\ IF ShutdownRxAlive
            THEN shutdown_q' = shutdown_q + 1 /\ signals_ok' = signals_ok + 1
            ELSE UNCHANGED <<shutdown_q, signals_ok>>
    ELSE UNCHANGED signals

\* App::run, up to the loop: the channels, shutdown_tx, the spawn
RunStart ==
    /\ ctl = "start"
    /\ last_cb' = << >>
    /\ ctl' = "loop"
    /\ shutdown_tx' = "Some"
    /\ cap' = "startup"
    /\ last_op' = Op("start", 0, 0)
    /\ UNCHANGED <<exit, recording, last_terminal_width, bar_values, audio,
                   signals, pending, loop_entered>>

\* while !self.exit || self.recording: a quit waits for the recording to stop
LoopCheck_WhileRecording ==
    /\ ctl = "loop"
    /\ last_cb' = << >>
    /\ IF exit /\ ~recording
       THEN ctl' = "shutdown" /\ UNCHANGED loop_entered
       ELSE ctl' = "drain" /\ loop_entered' = TRUE
    /\ last_op' = Op("check", 0, 0)
    /\ UNCHANGED <<app, audio, signals, cap, pending>>

\* while !self.exit
LoopCheck ==
    /\ ctl = "loop"
    /\ last_cb' = << >>
    /\ IF exit
       THEN ctl' = "shutdown" /\ UNCHANGED loop_entered
       ELSE ctl' = "drain" /\ loop_entered' = TRUE
    /\ last_op' = Op("check", 0, 0)
    /\ UNCHANGED <<app, audio, signals, cap, pending>>

\* try_recv() that takes the newest buffer of the channel instead of the oldest
TryRecv_Newest(q) == [msg |-> q[Len(q)], rest |-> SubSeq(q, 1, Len(q) - 1)]

\* audio_rx.try_recv() on a channel that holds a message: the oldest, and the rest
TryRecv(q) == [msg |-> Head(q), rest |-> Tail(q)]

\* while let Ok(samples) = audio_rx.try_recv(): one buffer
DrainOne ==
    /\ ctl = "drain"
    /\ last_cb' = << >>
    /\ audio_q # << >>
    /\ bar_values' = ProcessAudioSamples(bar_values, TryRecv(audio_q).msg)
    /\ audio_q' = TryRecv(audio_q).rest
    /\ audio_ids' = TryRecv(audio_ids).rest
    /\ aggregated' = Append(aggregated, TryRecv(audio_ids).msg)
    /\ UNCHANGED pushed
    /\ last_op' = Op("aggregate", Len(TryRecv(audio_q).msg), Len(bar_values))
    /\ UNCHANGED <<ctl, exit, recording, shutdown_tx, last_terminal_width,
                   signals, cap, pending, loop_entered>>

\* try_recv() whose Disconnected error ends the run
DrainDone_FailOnDisconnect ==
    /\ ctl = "drain"
    /\ last_cb' = << >>
    /\ audio_q = << >>
    /\ ctl' = IF CaptureFinished THEN "failed" ELSE "draw"
    /\ last_op' = Op("drained", 0, 0)
    /\ UNCHANGED <<app, audio, signals, cap, pending, loop_entered>>

\* try_recv() returns Err (empty or disconnected): the drain ends
DrainDone ==
    /\ ctl = "drain"
    /\ last_cb' = << >>
    /\ audio_q = << >>
    /\ ctl' = "draw"
    /\ last_op' = Op("drained", 0, 0)
    /\ UNCHANGED <<app, audio, signals, cap, pending, loop_entered>>

\* App::draw that updates the bar count on every frame
DrawFrame_AlwaysResize(current_width) ==
    /\ bar_values' = UpdateBarCount(bar_values, current_width)
    /\ last_terminal_width' = current_width
    /\ last_op' = Op(IF current_width # last_terminal_width THEN "resize" ELSE "render",
                     current_width, Len(bar_values))

\* App::draw: the closure terminal.draw runs on a frame of width current_width
DrawFrame(current_width) ==
    /\ IF current_width # last_terminal_width
       THEN /\ bar_values' = UpdateBarCount(bar_values, current_width)
            /\ last_terminal_width' = current_width
       ELSE UNCHANGED <<bar_values, last_terminal_width>>
    /\ last_op' = Op(IF current_width # last_terminal_width THEN "resize" ELSE "render",
                     current_width, Len(bar_values))

\* terminal.draw(|frame| self.draw(frame))?
\* the error is returned before the closure ran (autoresize) or after it (flush)
Draw ==
    /\ ctl = "draw"
    /\ last_cb' = << >>
    /\ \E w \in Widths, result \in {"ok", "err_before", "err_after"} :
          /\ IF result = "err_before"
             THEN UNCHANGED <<bar_values, last_terminal_width>>
                  /\ last_op' = Op("draw_err", w, Len(bar_values))
             ELSE DrawFrame(w)
          /\ ctl' = IF result = "ok" THEN "poll" ELSE "failed"
    /\ UNCHANGED <<exit, recording, shutdown_tx, audio, signals, cap, pending,
                   loop_entered>>

\* crossterm::event::poll(Duration::from_millis(16))?
Poll ==
    /\ ctl = "poll"
    /\ last_cb' = << >>
    /\ \/ \E ev \in Events : ctl' = "read" /\ pending' = ev
       \/ ctl' = "loop" /\ UNCHANGED pending
       \/ ctl' = "failed" /\ UNCHANGED pending
    /\ last_op' = Op("poll", 0, 0)
    /\ UNCHANGED <<app, audio, signals, cap, loop_entered>>

\* stop_recording that only clears the flag
StopRecording_NoSend ==
    /\ recording' = FALSE
    /\ UNCHANGED <<exit, signals>>

\* App::stop_recording
StopRecording ==
    /\ SendShutdown
    /\ recording' = FALSE
    /\ UNCHANGED exit

\* App::exit
Exit ==
    /\ exit' = TRUE
    /\ UNCHANGED <<recording, signals>>

\* the match of handle_key_event with the guard of the first arm left out
HandleKeyEvent_NoGuard(code) ==
    CASE code = " " -> StopRecording
      [] code = "q" -> Exit
      [] OTHER -> UNCHANGED <<exit, recording, signals>>

\* the match of handle_key_event with a space that toggles the recording
HandleKeyEvent_Toggle(code) ==
    CASE code = " " -> /\ IF recording THEN SendShutdown
                                       ELSE UNCHANGED signals
                       /\ recording' = ~recording
                       /\ UNCHANGED exit
      [] code = "q" -> Exit
      [] OTHER -> UNCHANGED <<exit, recording, signals>>

\* App::handle_key_event
HandleKeyEvent(code) ==
    CASE code = " " /\ recording -> StopRecording
      [] code = "q" -> Exit
      [] OTHER -> UNCHANGED <<exit, recording, signals>>

\* handle_events without the test of key_event.kind == KeyEventKind::Press
HandleEvents_AnyKind ==
    /\ ctl = "read"
    /\ last_cb' = << >>
    /\ pending' = NoEvent
    /\ \/ /\ ctl' = "loop"
          /\ IF pending.type = "Key"
             THEN HandleKeyEvent(pending.code)
             ELSE UNCHANGED <<exit, recording, signals>>
          /\ last_op' = [Op("event", 0, IF recording THEN 1 ELSE 0)
                           EXCEPT !.ev = pending]
       \/ /\ ctl' = "failed"
          /\ last_op' = Op("read_err", 0, 0)
          /\ UNCHANGED <<exit, recording, signals>>
    /\ UNCHANGED <<shutdown_tx, last_terminal_width, bar_values, audio, cap,
                   loop_entered>>

\* App::handle_events: event::read()? and the dispatch
HandleEvents ==
    /\ ctl = "read"
    /\ last_cb' = << >>
    /\ pending' = NoEvent
    /\ \/ /\ ctl' = "loop"
          /\ IF pending.type = "Key" /\ pending.press
             THEN HandleKeyEvent(pending.code)
             ELSE UNCHANGED <<exit, recording, signals>>
          /\ last_op' = [Op("event", 0, IF recording THEN 1 ELSE 0)
                           EXCEPT !.ev = pending]
       \/ /\ ctl' = "failed"
          /\ last_op' = Op("read_err", 0, 0)
          /\ UNCHANGED <<exit, recording, signals>>
    /\ UNCHANGED <<shutdown_tx, last_terminal_width, bar_values, audio, cap,
                   loop_entered>>

\* after the loop: if let Some(tx) = &self.shutdown_tx { tx.send(()).ok(); }
ShutdownAfterLoop ==
    /\ ctl = "shutdown"
    /\ last_cb' = << >>
    /\ SendShutdown
    /\ ctl' = "join"
    /\ last_op' = Op("shutdown", 0, 0)
    /\ UNCHANGED <<app, audio, cap, pending, loop_entered>>

\* audio_thread.join().ok(); Ok(())
Join ==
    /\ ctl = "join"
    /\ last_cb' = << >>
    /\ CaptureFinished
    /\ ctl' = "done"
    /\ last_op' = Op("join", 0, 0)
    /\ UNCHANGED <<app, audio, signals, cap, pending, loop_entered>>

(* -------------------------- capture thread ----------------------------- *)
\* record_audio up to stream.play(): each unwrap() panics the thread on Err,
\* and the panic drops shutdown_rx and ui_tx
CaptureStartup ==
    /\ cap = "startup"
    /\ last_cb' = << >>
    /\ \E outcome \in StartupOutcomes :
          IF outcome = "playing"
          THEN cap' = "polling" /\ UNCHANGED shutdown_q
          ELSE cap' = "panicked" /\ shutdown_q' = 0
    /\ UNCHANGED <<ctl, app, audio, pending, signals_sent, signals_ok, loop_entered,
                   last_op>>

\* the data callback sending on a sync_channel(1): the send waits while a
\* buffer is queued
Callback_SyncChannel ==
    /\ cap = "polling"
    /\ Len(audio_q) < 1
    /\ pushed < MaxPushes
    /\ \E data \in CallbackData :
          /\ last_cb' = <<data>>
          /\ IF data = << >>
             THEN UNCHANGED <<audio_q, audio_ids, pushed>>
             ELSE /\ pushed' = pushed + 1
                  /\ IF AudioRxAlive
                     THEN /\ audio_q' = Append(audio_q, data)
                          /\ audio_ids' = Append(audio_ids, pushed + 1)
                     ELSE UNCHANGED <<audio_q, audio_ids>>
    /\ UNCHANGED <<ctl, app, aggregated, signals, cap, pending, loop_entered, last_op>>

\* the data callback without the is_empty() test
Callback_NoFilter ==
    /\ cap = "polling"
    /\ Len(audio_q) < MaxQueue
    /\ pushed < MaxPushes
    /\ \E data \in CallbackData :
          /\ last_cb' = <<data>>
          /\ pushed' = pushed + 1
          /\ IF AudioRxAlive
             THEN /\ audio_q' = Append(audio_q, data)
                  /\ audio_ids' = Append(audio_ids, pushed + 1)
             ELSE UNCHANGED <<audio_q, audio_ids>>
    /\ UNCHANGED <<ctl, app, aggregated, signals, cap, pending, loop_entered, last_op>>

\* the data callback of the stream, called with the slice data: an empty slice
\* is dropped, any other is sent once; the send fails, and the failure is
\* ignored, once the receiver is gone.  pushed counts the sends.
Callback ==
    /\ cap = "polling"
    /\ Len(audio_q) < MaxQueue
    /\ pushed < MaxPushes
    /\ \E data \in CallbackData :
          /\ last_cb' = <<data>>
          /\ IF data = << >>
             THEN UNCHANGED <<audio_q, audio_ids, pushed>>
             ELSE /\ pushed' = pushed + 1
                  /\ IF AudioRxAlive
                     THEN /\ audio_q' = Append(audio_q, data)
                          /\ audio_ids' = Append(audio_ids, pushed + 1)
                     ELSE UNCHANGED <<audio_q, audio_ids>>
    /\ UNCHANGED <<ctl, app, aggregated, signals, cap, pending, loop_entered, last_op>>

\* while shutdown_rx.try_recv().is_err() { sleep(10 ms) }; drop(stream)
CapturePoll ==
    /\ cap = "polling"
    /\ last_cb' = << >>
    /\ IF shutdown_q > 0
       THEN cap' = "returned" /\ shutdown_q' = 0
       ELSE UNCHANGED <<cap, shutdown_q>>
    /\ UNCHANGED <<ctl, app, audio, pending, signals_sent, signals_ok, loop_entered,
                   last_op>>

Control ==
    \/ RunStart
    \/ LoopCheck
    \/ DrainOne
    \/ DrainDone
    \/ Draw
    \/ Poll
    \/ HandleEvents
    \/ ShutdownAfterLoop
    \/ Join

Capture ==
    \/ CaptureStartup
    \/ Callback
    \/ CapturePoll

Next == Control \/ Capture

Spec == Init /\ [][Next]_vars

\* the scheduler runs both threads: the steps that wait for nothing outside the
\* program are taken; the user and the terminal are not obliged to act
FairSpec ==
    /\ Spec
    /\ WF_vars(LoopCheck) /\ WF_vars(ShutdownAfterLoop) /\ WF_vars(Join)
    /\ WF_vars(CaptureStartup) /\ WF_vars(CapturePoll)

(* --------------------- aggregation and resize alone -------------------- *)
\* the widths of the aggregation check: narrow ones and the 40 and 80 of a resize
AggWidths == {0, 3, MaxWidth, 40, 80}

\* the buffers of the aggregation check
AggData == {Buffer(n, p) : n \in 0..MaxAggLen, p \in {"zero", "full", "soft", "loud", "nan"}}

\* a store the program reaches: drawn at width w0, one buffer aggregated, drawn at w1
StoreAfter(w0, pattern, w1) ==
    UpdateBarCount(
        ProcessAudioSamples([i \in 1..OptimalBarCount(w0) |-> 0],
                            Buffer(MaxAggLen, pattern)),
        w1)

\* the control thread is in its drain with one buffer to aggregate
AggInit ==
    /\ ctl = "drain"
    /\ exit = FALSE
    /\ recording = TRUE
    /\ shutdown_tx = "Some"
    /\ \E w0 \in AggWidths, w1 \in AggWidths \ {0}, p \in {"zero", "soft"} :
          /\ last_terminal_width = w1
          /\ bar_values = StoreAfter(w0, p, w1)
    /\ audio_q \in {<<data>> : data \in AggData}
    /\ audio_ids = <<1>>
    /\ pushed = 1
    /\ aggregated = << >>
    /\ shutdown_q = 0
    /\ cap = "polling"
    /\ pending = NoEvent
    /\ signals_sent = 0
    /\ signals_ok = 0
    /\ loop_entered = TRUE
    /\ last_op = Op("drained", 0, 0)
    /\ last_cb = << >>

\* the draw that follows the drain, on a frame of any of the widths
AggDraw ==
    /\ ctl = "drain"
    /\ last_cb' = << >>
    /\ audio_q = << >>
    /\ last_op.op = "aggregate"
    /\ \E w \in AggWidths : DrawFrame(w)
    /\ UNCHANGED <<ctl, exit, recording, shutdown_tx, audio, signals, cap, pending,
                   loop_entered>>

AggNext == DrainOne \/ AggDraw

AggSpec == AggInit /\ [][AggNext]_vars

(* ------------------------------ claims --------------------------------- *)
SpacePress == [type |-> "Key", code |-> " ", press |-> TRUE]
QuitPress == [type |-> "Key", code |-> "q", press |-> TRUE]

\* the step of the control thread that dispatches the pending event ev
Dispatches(ev) == ctl = "read" /\ ctl' = "loop" /\ pending = ev

\* C1: when run has returned Ok after the capture thread started and returned,
\* exactly one shutdown signal was sent: one call of send, or at least one
\* message accepted by the channel
C1_ExactlyOneSignal ==
    (ctl = "done" /\ cap = "returned") => (signals_sent = 1 \/ signals_ok = 1)

\* C2: whenever run has returned, by Ok or by an I/O error, the shutdown signal
\* has been sent and the capture thread has finished
C2_SignalledAndJoined ==
    ctl \in {"done", "failed"} => (signals_sent >= 1 /\ CaptureFinished)

\* C3: when the startup of the capture thread has failed, the body of the
\* control loop has not been entered
C3_NoLoopAfterStartupFailure == cap = "panicked" => ~loop_entered

\* C4: dispatching a pressed space while recording stops the recording and
\* calls send once; dispatching it while stopped leaves the recording state,
\* the exit flag, the bar values and the shutdown channel as they are
C4_StopOnceThenIgnored ==
    [][Dispatches(SpacePress) =>
          IF recording
          THEN /\ recording' = FALSE
               /\ signals_sent' = signals_sent + 1
               /\ shutdown_q' - shutdown_q = signals_ok' - signals_ok
               /\ (cap \in {"startup", "polling"} => shutdown_q' = shutdown_q + 1)
          ELSE UNCHANGED <<recording, exit, bar_values, signals>>]_vars

\* C4 witness: a second pressed space was dispatched after the recording stopped
C4_Witness ==
    /\ last_op.op = "event"
    /\ last_op.ev = SpacePress
    /\ last_op.b = 0
    /\ ~recording
    /\ signals_sent = 1
    /\ signals_ok = 1

\* C5: once a quit is handled, run returns and the capture thread has taken
\* the shutdown signal and returned from record_audio
C5_QuitLeadsToCaptureReturn == exit ~> (ctl = "done" /\ cap = "returned")

\* C6: recording starts true, and no step makes it true again once it is false
C6_RecordingNeverResumes == (recording = TRUE) /\ [][~recording => ~recording']_vars

\* C6 witness: the recording has stopped and the loop runs on
C6_Witness == ~recording /\ ctl = "drain" /\ last_op.op = "check" /\ ~exit

\* C10: the store never holds fewer than 10 values, and its length changes
\* only in a draw whose width differs from the last one seen
C10_AtLeastTenBars ==
    /\ [](Len(bar_values) >= 10)
    /\ [][Len(bar_values') # Len(bar_values) =>
            /\ ctl = "draw"
            /\ last_op'.op = "resize"
            /\ last_op'.n # last_terminal_width]_vars

\* C10 witness: a first frame narrower than the border shrank 50 bars to 10
C10_Witness ==
    /\ last_op.op = "resize"
    /\ last_op.n < 4
    /\ last_op.b = 50
    /\ Len(bar_values) = 10

\* the step of the control thread that aggregates the buffer at the head of the channel
AggregatesHead == ctl = "drain" /\ audio_q # << >> /\ audio_q' = Tail(audio_q)

\* C7: aggregating a buffer shorter than the store leaves the store as it is
C7_ShortBufferIsNoOp ==
    [][(AggregatesHead /\ Len(Head(audio_q)) < Len(bar_values)) =>
          bar_values' = bar_values]_vars

\* C7 witness: a buffer of 3 samples was aggregated against 10 bars that are not all zero
C7_Witness ==
    /\ last_op.op = "aggregate"
    /\ last_op.n = 3
    /\ last_op.b = 10
    /\ Len(bar_values) = 10
    /\ \E i \in 1..10 : bar_values[i] > 0

\* the sample indices (1-based) of chunk i of n samples over b bars
C8_Chunk(n, b, i) ==
    IF i = b THEN ((b - 1) * (n \div b) + 1)..n
             ELSE ((i - 1) * (n \div b) + 1)..(i * (n \div b))

RECURSIVE C8_SumSq(_, _)
C8_SumSq(samples, idx) ==
    IF idx = {} THEN 0
    ELSE LET k == CHOOSE k \in idx : TRUE
         IN  samples[k] * samples[k] + C8_SumSq(samples, idx \ {k})

\* min(RMS x 10, 1) of the chunk; a chunk that holds a NaN gives 1
C8_Expected(samples, b, i) ==
    LET idx == C8_Chunk(Len(samples), b, i)
    IN  IF \E k \in idx : samples[k] = NaN THEN One
        ELSE LET mean == C8_SumSq(samples, idx) \div Cardinality(idx)
                 root == CHOOSE r \in 0..(2 * One) : r * r <= mean /\ mean < (r + 1) * (r + 1)
             IN  IF 10 * root > One THEN One ELSE 10 * root

\* C8: aggregating a buffer at least as long as the store keeps the number of
\* slots and writes min(RMS of the chunk x 10, 1), a value in [0, 1], in each
C8_AllBarsWrittenInRange ==
    [][(AggregatesHead /\ Len(Head(audio_q)) >= Len(bar_values)) =>
          /\ Len(bar_values') = Len(bar_values)
          /\ \A i \in 1..Len(bar_values) :
                /\ bar_values'[i] >= 0
                /\ bar_values'[i] <= One
                /\ bar_values'[i] = C8_Expected(Head(audio_q), Len(bar_values), i)]_vars

\* C8 witness: a buffer longer than the store, not a multiple of it, was
\* aggregated; one bar is clamped to 1 and one lies strictly between 0 and 1
C8_Witness ==
    /\ last_op.op = "aggregate"
    /\ last_op.n > last_op.b
    /\ last_op.n % last_op.b # 0
    /\ Len(bar_values) = last_op.b
    /\ \E i \in 1..Len(bar_values) : bar_values[i] = One
    /\ \E i \in 1..Len(bar_values) : bar_values[i] > 0 /\ bar_values[i] < One

\* C9: a resize to the width w leaves max(10, max(0, w - 4) / 2) slots, keeps
\* the values of the slots both stores have and puts 0.0 in every added slot;
\* from width 40 to width 80 the store grows from 18 to 38 slots
C9_ResizeKeepsPrefix ==
    [][(last_op' # last_op /\ last_op'.op = "resize") =>
          LET w == last_op'.n
              half == IF w < 4 THEN 0 ELSE (w - 4) \div 2
              newCount == IF half < 10 THEN 10 ELSE half
          IN  /\ Len(bar_values') = newCount
              /\ \A i \in 1..newCount :
                    bar_values'[i] = IF i <= Len(bar_values) THEN bar_values[i] ELSE 0
              /\ (w = 80 /\ last_terminal_width = 40) =>
                    (Len(bar_values) = 18 /\ Len(bar_values') = 38)]_vars

\* C9 witness: 18 bars with a non-zero first value grew to 38 at width 80
C9_Witness ==
    /\ last_op.op = "resize"
    /\ last_op.n = 80
    /\ last_op.b = 18
    /\ last_terminal_width = 80
    /\ Len(bar_values) = 38
    /\ bar_values[1] > 0
    /\ bar_values[18] > 0
    /\ \A i \in 19..38 : bar_values[i] = 0

\* C11: buffers are aggregated in the order they were pushed and none twice
\* (the push numbers aggregated so far increase strictly), and a drain ends
\* only when it found the channel empty
C11_FifoOrder ==
    /\ [](\A i \in 1..Len(aggregated) : \A j \in 1..Len(aggregated) :
             i < j => aggregated[i] < aggregated[j])
    /\ [][(ctl = "drain" /\ ctl' # "drain") => (audio_q = << >> /\ ctl' = "draw")]_vars

\* C11 witness: the first buffer was aggregated while two more wait in the channel
C11_Witness ==
    /\ ctl = "drain"
    /\ last_op.op = "aggregate"
    /\ aggregated = <<1>>
    /\ audio_ids = <<2, 3>>

\* C12 as stated: once the capture thread has ended, no step of the drain
\* changes a bar value
C12_DrainIsNoOp ==
    [][(CaptureFinished /\ ctl = "drain") => bar_values' = bar_values]_vars

\* C12 amended: once the capture thread has ended no buffer is added to the
\* channel; the drain changes no bar value once the channel is empty, and it
\* never ends the loop; frames are still drawn and a quit or a stop is still
\* dispatched
C12_DrainAfterCaptureEnd ==
    [][CaptureFinished =>
          /\ Len(audio_q') <= Len(audio_q)
          /\ (ctl = "drain" => ctl' \in {"drain", "draw"})
          /\ (ctl = "drain" /\ audio_q = << >>) => bar_values' = bar_values
          /\ (ctl = "draw" /\ ctl' = "poll") => last_op'.op \in {"render", "resize"}
          /\ Dispatches(QuitPress) => exit'
          /\ (Dispatches(SpacePress) /\ recording) => ~recording']_vars

\* C12 witness: after the capture thread returned, a drain found the channel
\* empty and the loop went on to draw, with bars aggregated earlier still shown
C12_Witness ==
    /\ cap = "returned"
    /\ ctl = "draw"
    /\ last_op.op = "drained"
    /\ ~exit
    /\ \E i \in 1..Len(bar_values) : bar_values[i] > 0

\* C13: a pressed q sets the exit flag whatever the recording state, and once
\* the flag is set the control thread never again drains, draws, polls or
\* dispatches: the bars, the observed width and the recording state stay
C13_QuitEndsLoop ==
    [][/\ Dispatches(QuitPress) => exit'
       /\ exit => /\ exit'
                  /\ ctl' \in {"loop", "shutdown", "join", "done"}
                  /\ UNCHANGED <<bar_values, last_terminal_width, recording, pending,
                                 aggregated>>]_vars

\* C13 witness: run returned after a quit dispatched while still recording
C13_Witness == exit /\ recording /\ ctl = "done" /\ signals_sent = 1

\* C14: for a buffer of n >= b samples the b slices are [i*c, (i+1)*c) and,
\* for the last, [(b-1)*c, n), with c = n / b; each is non-empty and within
\* [0, n], and every sample index lies in exactly one of them
C14_ChunksPartitionBuffer ==
    (ctl = "drain" /\ audio_q # << >> /\ Len(Head(audio_q)) >= Len(bar_values)) =>
        LET n == Len(Head(audio_q))
            b == Len(bar_values)
            c == n \div b
            lo(i) == ChunkStart(i, c)
            hi(i) == ChunkEnd(i, c, b, n)
        IN  /\ b > 0
            /\ c > 0
            /\ \A i \in 0..(b - 1) :
                  /\ lo(i) = i * c
                  /\ hi(i) = IF i = b - 1 THEN n ELSE (i + 1) * c
                  /\ 0 <= lo(i)
                  /\ lo(i) < hi(i)
                  /\ hi(i) <= n
            /\ \A k \in 0..(n - 1) :
                  Cardinality({i \in 0..(b - 1) : lo(i) <= k /\ k < hi(i)}) = 1

\* C14 witness: a buffer of at least two samples a bar, with a remainder, was aggregated
C14_Witness ==
    /\ last_op.op = "aggregate"
    /\ last_op.n >= 2 * last_op.b
    /\ last_op.n % last_op.b # 0
    /\ bar_values[Len(bar_values)] > 0

\* the step that draws a frame: terminal.draw has run the closure of App::draw
DrawsFrame == last_op' # last_op /\ last_op'.op \in {"render", "resize"}

\* C15: a frame whose width w differs from the last one seen resizes the store
\* to max(10, max(0, w - 4) / 2) slots and records w; a frame of the same
\* width leaves the store as it is
C15_ResizeIffWidthChanged ==
    [][DrawsFrame =>
          LET w == last_op'.n
              half == IF w < 4 THEN 0 ELSE (w - 4) \div 2
          IN  /\ (last_op'.op = "resize") <=> (w # last_terminal_width)
              /\ last_terminal_width' = w
              /\ w # last_terminal_width =>
                    Len(bar_values') = (IF half < 10 THEN 10 ELSE half)
              /\ w = last_terminal_width => bar_values' = bar_values]_vars

\* C15 witness: a frame of the width already seen was drawn after a resize to 11 bars
C15_Witness ==
    /\ last_op.op = "render"
    /\ last_op.n = last_terminal_width
    /\ last_op.n > 4
    /\ Len(bar_values) = (last_op.n - 4) \div 2
    /\ Len(bar_values) > 10

\* the step that runs the data callback, and the slice it was called with
CallbackRuns == last_cb' # << >>

\* C16: every buffer on the audio channel is non-empty: a callback called with
\* an empty slice sends nothing, a callback called with a non-empty slice
\* sends exactly one buffer, equal to the slice, which is queued while the
\* receiver lives; so no buffer of length 0 is ever aggregated
C16_OnlyNonEmptyBuffers ==
    /\ [](\A i \in 1..Len(audio_q) : audio_q[i] # << >>)
    /\ [](last_op.op = "aggregate" => last_op.n > 0)
    /\ [][CallbackRuns =>
             LET data == last_cb'[1]
             IN  /\ data = << >> => UNCHANGED <<audio_q, pushed>>
                 /\ data # << >> =>
                       /\ pushed' = pushed + 1
                       /\ AudioRxAlive => audio_q' = Append(audio_q, data)
                       /\ ~AudioRxAlive => audio_q' = audio_q]_vars

\* C16 witness: the callback was just called with an empty slice while a
\* buffer sent by an earlier call is still queued
C16_Witness ==
    /\ last_cb = << << >> >>
    /\ pushed = 1
    /\ Len(audio_q) = 1

\* C17: handling an event other than a pressed 'q' or a pressed space (another
\* key, a key event that is not a press, a resize, any other event) changes
\* neither the recording state, the exit flag, the bar values nor the
\* shutdown signals sent
C17_OtherEventsChangeNothing ==
    [][\A ev \in Events \ {SpacePress, QuitPress} :
          Dispatches(ev) =>
             UNCHANGED <<recording, exit, bar_values, signals_sent, signals_ok,
                         shutdown_q>>]_vars

\* C17 witness: a release of 'q' was handled while recording and the loop goes on
C17_Witness ==
    /\ last_op.op = "event"
    /\ last_op.ev = [type |-> "Key", code |-> "q", press |-> FALSE]
    /\ ctl = "loop"
    /\ recording
    /\ ~exit
    /\ signals_sent = 0

\* a callback step that sends a buffer
CallbackSends == Callback /\ pushed' = pushed + 1

\* C18: while the stream plays, a callback that sends a buffer can run in
\* every state of the control thread (draining, drawing, waiting for input,
\* joining, returned with the receiver dropped) whatever the queue holds,
\* up to the queue and send bounds of the model; the callback step leaves the
\* capture thread and the control thread where they are
C18_CallbackNeverBlocksOrFails ==
    /\ [](cap = "polling" /\ Len(audio_q) < MaxQueue /\ pushed < MaxPushes =>
             ENABLED CallbackSends)
    /\ [][CallbackRuns => cap' = "polling" /\ UNCHANGED <<ctl, app, signals>>]_vars

\* C18 witness: a buffer was sent behind a queued one while the control thread
\* waits in join and drains no more
C18_Witness ==
    /\ last_cb # << >>
    /\ last_cb # << << >> >>
    /\ ctl = "join"
    /\ Len(audio_q) = 2
    /\ audio_q[2] = last_cb[1]

\* C19: at every frame drawn the number of bar values handed to the widget is
\* max(10, max(0, w - 4) / 2) for the width w of that frame
C19_RenderedCountMatchesWidth ==
    [][DrawsFrame =>
          LET w == last_op'.n
              half == IF w < 4 THEN 0 ELSE (w - 4) \div 2
          IN  Len(bar_values') = (IF half < 10 THEN 10 ELSE half)]_vars

\* C20: whenever recording is false a shutdown signal has been sent before;
\* not conversely: the send after the loop of a run quit while recording
\* sends the signal and leaves recording true
C20_StoppedImpliesSignalled ==
    /\ [](~recording => signals_sent >= 1)
    /\ [][ctl = "shutdown" /\ ctl' = "join" /\ recording =>
             signals_sent' = signals_sent + 1 /\ recording']_vars

\* C20 witness: quit while recording, the signal is sent and the control
\* thread waits in join with recording still true
C20_Witness ==
    /\ ctl = "join"
    /\ recording
    /\ exit
    /\ signals_sent = 1
    /\ last_op.op = "shutdown"

====
